---- MODULE Spec2Model ----
(***************************************************************************)
(* Model of the crud-api todo server: the "todos" table of the PostgreSQL  *)
(* store, the TodoDatabase repository (one parameterised statement per     *)
(* operation, every failure wrapped by throwError), the router and the     *)
(* TodoActionController handlers that feed it from HTTP requests, and the  *)
(* start-up of the server process (pools, getInstance, initialiseDb,       *)
(* listen) in its three forms.                                             *)
(***************************************************************************)
EXTENDS Integers, Sequences, FiniteSets, TLC

(* ---------------------------------------------------------------------- *)
(* Bounds                                                                 *)
(* ---------------------------------------------------------------------- *)

\* Highest value the todos_id_seq sequence hands out in the model.
MaxId == 2

\* Task texts that requests carry.
Tasks == {"A", "B"}

(* ---------------------------------------------------------------------- *)
(* Values                                                                 *)
(* ---------------------------------------------------------------------- *)

\* SQL NULL; pg sends a JavaScript null or undefined parameter as NULL.
NULL == "NULL"

\* BOOLEAN column values as the store holds them; the column is nullable.
SqlTrue == "true"
SqlFalse == "false"
Bool3 == {SqlTrue, SqlFalse, NULL}

\* What a request body can carry in "task": a text, or nothing (null).
BodyTasks == Tasks \cup {NULL}

\* An argument slot an operation does not have.
NoArg == "-"

\* JavaScript numbers: an integer, or NaN.
JsInt(n) == [kind |-> "int", val |-> n]
NaN == [kind |-> "NaN", val |-> 0]
NoNum == [kind |-> "none", val |-> 0]

\* A path segment of white space only, as Express decodes it from "%20".
Blank == " "

\* Path parameters of the :id routes, as the strings Express captures.
PathParams == {ToString(i) : i \in 0..MaxId} \cup {Blank, "abc"}

\* Number(req.params.id): a decimal string converts to its integer, white
\* space to 0, anything else to NaN.
Number(s) ==
  IF \E i \in 0..MaxId : ToString(i) = s
    THEN JsInt(CHOOSE i \in 0..MaxId : ToString(i) = s)
    ELSE IF s = Blank THEN JsInt(0) ELSE NaN

\* HTTP requests: a verb and the segments of the path.
Verbs == {"GET", "POST", "PUT", "DELETE"}
Paths ==
  {<<"todos">>} \cup {<<"todos", p>> : p \in PathParams}
                \cup {<<"todos", "toggle", p>> : p \in PathParams}
Requests == [verb : Verbs, path : Paths]
\* A call that no request brought.
NoRequest == [verb |-> "-", path |-> <<>>]

\* type Todo = { id, task, completed }
Todo(id, task, completed) == [id |-> id, task |-> task, completed |-> completed]

\* The definition of table todos that CREATE TABLE writes, and its absence.
NoTable == "no table"
TodosTable == "todos (id SERIAL PRIMARY KEY, task TEXT NOT NULL, completed BOOLEAN DEFAULT false)"

\* The server programs of the repository: the todo server built on the
\* TodoDatabase class, its earlier form built on a module-level pool, and
\* the items server.
ClassServer == "crud-api (TodoDatabase)"
PoolServer == "crud-api (pool)"
ItemsServer == "items"
Programs == {ClassServer, PoolServer, ItemsServer}

(* ---------------------------------------------------------------------- *)
(* State                                                                  *)
(* ---------------------------------------------------------------------- *)

VARIABLES
  todos,          \* the rows of table todos, in heap order
  todos_id_seq,   \* next value of the sequence behind "id SERIAL"
  assigned,       \* history: every id a row has ever carried
  last,           \* the repository call just made, its arguments and outcome
  schema,         \* the definition of table todos in the store, if any
  poolUp,         \* whether the store accepts connections and statements
  proc            \* the server process: what it has constructed and started

vars == <<todos, todos_id_seq, assigned, last, schema, poolUp, proc>>

(* ---------------------------------------------------------------------- *)
(* Sequence helpers                                                       *)
(* ---------------------------------------------------------------------- *)

Range(s) == {s[i] : i \in 1..Len(s)}

Ids(t) == {t[i].id : i \in 1..Len(t)}

RECURSIVE Filter(_, _)
\* The rows of t, in order, whose index is in keep.
Filter(t, keep) ==
  IF t = <<>> THEN <<>>
  ELSE LET n == Len(t)
           front == Filter(SubSeq(t, 1, n - 1), keep)
       IN IF n \in keep THEN Append(front, t[n]) ELSE front

\* Faulty variant: the id is taken for the row's position in the table.
WhereId_Position(t, id) == {i \in 1..Len(t) : i = id}

\* Indexes of the rows a WHERE clause selects.
WhereId(t, id) == {i \in 1..Len(t) : t[i].id = id}
WhereTask(t, task) == {i \in 1..Len(t) : t[i].task = task}
\* "completed = $1": never true of a NULL.
WhereCompleted(t, c) == {i \in 1..Len(t) : t[i].completed # NULL /\ t[i].completed = c}
All(t) == 1..Len(t)

\* All orders in which a SELECT without ORDER BY may deliver rows.
Perms(s) ==
  {p \in [1..Len(s) -> Range(s)] : \A i, j \in 1..Len(s) : i # j => p[i] # p[j]}

(* ---------------------------------------------------------------------- *)
(* The store: one statement at a time                                     *)
(* ---------------------------------------------------------------------- *)

\* Result of pool.query: the new table and sequence, the rows returned,
\* the engine's error ("" when the statement succeeded), and the rows the
\* statement's WHERE clause selected, as they were before it ran.
QueryOk(t, s, rows, matched) ==
  [todos |-> t, seq |-> s, rows |-> rows, err |-> "", matched |-> matched]
QueryError(t, s, cause) ==
  [todos |-> t, seq |-> s, rows |-> <<>>, err |-> cause, matched |-> <<>>]

\* SQL NOT over a nullable boolean.
SqlNot(c) == IF c = NULL THEN NULL ELSE IF c = SqlTrue THEN SqlFalse ELSE SqlTrue

\* An integer parameter the engine accepts for the id column.
BadInteger(n) == n.kind # "int"
InvalidInteger == "invalid input syntax for type integer"
NotNullViolation == "null value in column \"task\" violates not-null constraint"
UndefinedTable == "relation \"todos\" does not exist"
\* What pool.connect and pool.query reject with while the store is down.
ConnectionRefused == "connect ECONNREFUSED"

\* Faulty variant: the new id is the row count plus one, so the id of a
\* deleted row is handed out again.
InsertReturning_CountId(t, s, task) ==
  IF task = NULL
    THEN QueryError(t, s + 1, NotNullViolation)
    ELSE LET row == Todo(Len(t) + 1, task, SqlFalse)
         IN QueryOk(Append(t, row), s + 1, <<row>>, <<>>)

\* Faulty variant: the sequence is read but not advanced.
InsertReturning_NoAdvance(t, s, task) ==
  IF task = NULL
    THEN QueryError(t, s, NotNullViolation)
    ELSE LET row == Todo(s, task, SqlFalse)
         IN QueryOk(Append(t, row), s, <<row>>, <<>>)

\* Faulty variant: the task column takes NULL.
InsertReturning_Nullable(t, s, task) ==
  LET row == Todo(s, task, SqlFalse)
  IN QueryOk(Append(t, row), s + 1, <<row>>, <<>>)

\* INSERT INTO todos (task) VALUES ($1) RETURNING *
\* id takes nextval of the sequence (consumed even when the row is then
\* rejected), completed takes DEFAULT false, task is NOT NULL.
InsertReturning(t, s, task) ==
  IF task = NULL
    THEN QueryError(t, s + 1, NotNullViolation)
    ELSE LET row == Todo(s, task, SqlFalse)
         IN QueryOk(Append(t, row), s + 1, <<row>>, <<>>)

\* Faulty variant: the table is dropped and created again.
CreateTableIfNotExists_Recreate(sch, t, s) ==
  [schema |-> TodosTable, todos |-> <<>>, seq |-> 1, err |-> ""]

\* CREATE TABLE IF NOT EXISTS todos (...): a new, empty table with its id
\* sequence at 1 when there is none, nothing at all when there is one.
CreateTableIfNotExists(sch, t, s) ==
  IF sch = NoTable
    THEN [schema |-> TodosTable, todos |-> <<>>, seq |-> 1, err |-> ""]
    ELSE [schema |-> sch, todos |-> t, seq |-> s, err |-> ""]

\* Faulty variant: the rows come from a copy taken when the table was empty.
Select_Cached(t, s, sel) == QueryOk(t, s, <<>>, <<>>)

\* SELECT * FROM todos [WHERE ...]
Select(t, s, sel) == QueryOk(t, s, Filter(t, sel), Filter(t, sel))

\* Faulty variant: the SET is applied to every row, the WHERE only picks the
\* rows returned.
UpdateReturning_EveryRow(t, s, sel, new) ==
  LET t2 == [i \in 1..Len(t) |-> new[i]]
  IN IF \E i \in sel : t2[i].task = NULL
       THEN QueryError(t, s, NotNullViolation)
       ELSE QueryOk(t2, s, Filter(t2, sel), Filter(t, sel))

\* UPDATE todos SET ... WHERE ... RETURNING *, new[i] being row i after SET.
UpdateReturning(t, s, sel, new) ==
  LET t2 == [i \in 1..Len(t) |-> IF i \in sel THEN new[i] ELSE t[i]]
  IN IF \E i \in sel : t2[i].task = NULL
       THEN QueryError(t, s, NotNullViolation)
       ELSE QueryOk(t2, s, Filter(t2, sel), Filter(t, sel))

\* Faulty variant: a soft delete, the rows are returned but stay.
DeleteReturning_Soft(t, s, sel) ==
  QueryOk(t, s, Filter(t, sel), Filter(t, sel))

\* Faulty variant: the deleted rows are not returned.
DeleteReturning_NoRows(t, s, sel) ==
  QueryOk(Filter(t, All(t) \ sel), s, <<>>, Filter(t, sel))

\* DELETE FROM todos [WHERE ...] [RETURNING *]
DeleteReturning(t, s, sel) ==
  QueryOk(Filter(t, All(t) \ sel), s, Filter(t, sel), Filter(t, sel))

(* ---------------------------------------------------------------------- *)
(* TodoDatabase                                                           *)
(* ---------------------------------------------------------------------- *)

\* throwError(error, message): always throws, wrapping the cause.
throwError(cause, message) ==
  [kind |-> "throw", rows |-> <<>>, message |-> message, cause |-> cause]

\* return result.rows
ReturnRows(rows) == [kind |-> "todos", rows |-> rows, message |-> "", cause |-> ""]
\* Faulty variant: an empty result is raised as an error.
ReturnRow0_Throws(rows) ==
  IF rows = <<>>
    THEN [kind |-> "throw", rows |-> <<>>, message |-> "Todo not found", cause |-> ""]
    ELSE [kind |-> "todo", rows |-> <<rows[1]>>, message |-> "", cause |-> ""]

\* return result.rows[0]: the first row, or undefined when there is none
ReturnRow0(rows) ==
  IF rows = <<>>
    THEN [kind |-> "undefined", rows |-> <<>>, message |-> "", cause |-> ""]
    ELSE [kind |-> "todo", rows |-> <<rows[1]>>, message |-> "", cause |-> ""]
\* Promise<void>
ReturnVoid == [kind |-> "void", rows |-> <<>>, message |-> "", cause |-> ""]

\* pool.query(text, params) against the store as it is: the statement's
\* result q when the store is reachable and holds the table, the driver's
\* or the engine's error otherwise, the table and the sequence untouched.
PoolQuery(t, s, q) ==
  IF ~poolUp THEN QueryError(t, s, ConnectionRefused)
  ELSE IF schema = NoTable THEN QueryError(t, s, UndefinedTable)
  ELSE q

\* Faulty variant: a failed statement is logged and the operation returns
\* undefined.
Outcome_Swallow(t, s, q, value, message) ==
  LET r == PoolQuery(t, s, q)
  IN [todos |-> r.todos, seq |-> r.seq, matched |-> r.matched, queries |-> 1,
      ret |-> IF r.err = "" THEN value ELSE ReturnRow0(<<>>)]

\* try { result = await pool.query(...); return ... } catch { throwError }
\* One statement is sent, whatever its fate.
Outcome(t, s, q, value, message) ==
  LET r == PoolQuery(t, s, q)
  IN [todos |-> r.todos, seq |-> r.seq, matched |-> r.matched, queries |-> 1,
      ret |-> IF r.err = "" THEN value ELSE throwError(r.err, message)]

\* "WHERE id = $1" with a JavaScript number bound to $1: the engine rejects
\* a parameter that is no integer, and runs the statement q otherwise.
BindId(t, s, id, q) ==
  IF BadInteger(id) THEN QueryError(t, s, InvalidInteger) ELSE q

\* Faulty variant: only the rows still to do are selected.
getTodos_OnlyIncomplete(t, s) ==
  LET q == Select(t, s, WhereCompleted(t, SqlFalse))
  IN Outcome(t, s, q, ReturnRows(q.rows), "Error getting todos")

getTodos(t, s) ==
  LET q == Select(t, s, All(t))
  IN Outcome(t, s, q, ReturnRows(q.rows), "Error getting todos")

getTodoById(t, s, id) ==
  LET q == BindId(t, s, id, Select(t, s, WhereId(t, id.val)))
  IN Outcome(t, s, q, ReturnRow0(q.rows), "Error getting todo")

getTodoByTask(t, s, task) ==
  LET q == Select(t, s, WhereTask(t, task))
  IN Outcome(t, s, q, ReturnRow0(q.rows), "Error getting todo")

getTodoByStatus(t, s, status) ==
  LET q == Select(t, s, WhereCompleted(t, status))
  IN Outcome(t, s, q, ReturnRows(q.rows), "Error getting todos")

createTodo(t, s, task) ==
  LET q == InsertReturning(t, s, task)
  IN Outcome(t, s, q, ReturnRow0(q.rows), "Error creating todo")

updateTodoStatus(t, s, id, completed) ==
  LET new == [i \in 1..Len(t) |-> Todo(t[i].id, t[i].task, completed)]
      q == BindId(t, s, id, UpdateReturning(t, s, WhereId(t, id.val), new))
  IN Outcome(t, s, q, ReturnRow0(q.rows), "Error updating todo")

toggleTodoStatus(t, s, id) ==
  LET new == [i \in 1..Len(t) |-> Todo(t[i].id, t[i].task, SqlNot(t[i].completed))]
      q == BindId(t, s, id, UpdateReturning(t, s, WhereId(t, id.val), new))
  IN Outcome(t, s, q, ReturnRow0(q.rows), "Error toggling todo status")

updateTodoTask(t, s, id, task) ==
  LET new == [i \in 1..Len(t) |-> Todo(t[i].id, task, t[i].completed)]
      q == BindId(t, s, id, UpdateReturning(t, s, WhereId(t, id.val), new))
  IN Outcome(t, s, q, ReturnRow0(q.rows), "Error updating todo task")

\* Faulty variant: the statement sets the task and forgets completed.
updateTodo_TaskOnly(t, s, id, task, completed) ==
  LET new == [i \in 1..Len(t) |-> Todo(t[i].id, task, t[i].completed)]
      q == BindId(t, s, id, UpdateReturning(t, s, WhereId(t, id.val), new))
  IN Outcome(t, s, q, ReturnRow0(q.rows), "Error updating todo")

\* Faulty variant: the statement sets completed and forgets the task.
updateTodo_StatusOnly(t, s, id, task, completed) ==
  LET new == [i \in 1..Len(t) |-> Todo(t[i].id, t[i].task, completed)]
      q == BindId(t, s, id, UpdateReturning(t, s, WhereId(t, id.val), new))
  IN Outcome(t, s, q, ReturnRow0(q.rows), "Error updating todo")

updateTodo(t, s, id, task, completed) ==
  LET new == [i \in 1..Len(t) |-> Todo(t[i].id, task, completed)]
      q == BindId(t, s, id, UpdateReturning(t, s, WhereId(t, id.val), new))
  IN Outcome(t, s, q, ReturnRow0(q.rows), "Error updating todo")

deleteTodo(t, s, id) ==
  LET q == BindId(t, s, id, DeleteReturning(t, s, WhereId(t, id.val)))
  IN Outcome(t, s, q, ReturnRow0(q.rows), "Error deleting todo")

deleteAllTodos(t, s) ==
  Outcome(t, s, DeleteReturning(t, s, All(t)), ReturnVoid, "Error deleting all todos")

\* Faulty variant: the flag of the WHERE clause is the wrong one.
deleteCompletedTodos_Swapped(t, s) ==
  Outcome(t, s, DeleteReturning(t, s, WhereCompleted(t, SqlFalse)), ReturnVoid,
          "Error deleting completed todos")

deleteCompletedTodos(t, s) ==
  Outcome(t, s, DeleteReturning(t, s, WhereCompleted(t, SqlTrue)), ReturnVoid,
          "Error deleting completed todos")

deleteIncompleteTodos(t, s) ==
  Outcome(t, s, DeleteReturning(t, s, WhereCompleted(t, SqlFalse)), ReturnVoid,
          "Error deleting incomplete todos")

\* Faulty variant: only the first row that carries the task is deleted.
deleteTodoByTask_First(t, s, task) ==
  LET sel == WhereTask(t, task)
      first == IF sel = {} THEN {} ELSE {CHOOSE i \in sel : \A j \in sel : i <= j}
  IN Outcome(t, s, DeleteReturning(t, s, first), ReturnVoid,
             "Error deleting todo by task")

deleteTodoByTask(t, s, task) ==
  Outcome(t, s, DeleteReturning(t, s, WhereTask(t, task)), ReturnVoid,
          "Error deleting todo by task")

(* ---------------------------------------------------------------------- *)
(* Router and responses                                                   *)
(* ---------------------------------------------------------------------- *)

\* The named segment of a route path.
IdParam == ":id"

\* routes(app, controller): the bindings, in the order app.METHOD registers
\* them.
Routes ==
  << [verb |-> "GET", pattern |-> <<"todos">>, handler |-> "getTodos"],
     [verb |-> "GET", pattern |-> <<"todos", IdParam>>, handler |-> "getTodoById"],
     [verb |-> "POST", pattern |-> <<"todos">>, handler |-> "createTodo"],
     [verb |-> "PUT", pattern |-> <<"todos", IdParam>>, handler |-> "updateTodo"],
     [verb |-> "PUT", pattern |-> <<"todos", "toggle", IdParam>>,
      handler |-> "toggleTodoStatus"],
     [verb |-> "DELETE", pattern |-> <<"todos", IdParam>>, handler |-> "deleteTodo"] >>

\* What a request that matches no binding gets: Express answers 404.
NotFound == [verb |-> "-", pattern |-> <<>>, handler |-> "notFound"]

\* Faulty variant: a named segment swallows the rest of the path.
Matches_Greedy(pattern, path) ==
  /\ Len(path) >= Len(pattern)
  /\ \A i \in 1..Len(pattern) : pattern[i] = IdParam \/ pattern[i] = path[i]

\* Express path matching: segment by segment, a named segment taking
\* exactly one segment of the path.
Matches(pattern, path) ==
  /\ Len(path) = Len(pattern)
  /\ \A i \in 1..Len(pattern) : pattern[i] = IdParam \/ pattern[i] = path[i]

\* The first binding, in registration order, of the request's verb whose
\* path matches.
Dispatch(req) ==
  LET hits == {i \in 1..Len(Routes) :
                 Routes[i].verb = req.verb /\ Matches(Routes[i].pattern, req.path)}
  IN IF hits = {} THEN NotFound
     ELSE Routes[CHOOSE i \in hits : \A j \in hits : i <= j]

\* The requests each handler is handed, and those no binding matches.
Routed ==
  [h \in {Routes[i].handler : i \in 1..Len(Routes)} \cup {NotFound.handler} |->
     {req \in Requests : Dispatch(req).handler = h}]

\* For each handler whose binding names a segment, the place of that
\* segment in the path.
IdSegment ==
  [h \in {Routes[i].handler : i \in {j \in 1..Len(Routes) :
                                       \E k \in 1..Len(Routes[j].pattern) :
                                         Routes[j].pattern[k] = IdParam}} |->
     LET pattern == (CHOOSE r \in Range(Routes) : r.handler = h).pattern
     IN CHOOSE k \in 1..Len(pattern) : pattern[k] = IdParam]

\* req.params.id, in the handler h the request was dispatched to.
ParamId(h, req) == req.path[IdSegment[h]]

\* The major version of Express the server depends on.
ExpressMajor == 4

\* No response: the request stays pending.
NoResponse == "none"

\* What the client gets from an async handler that made a repository call:
\* res.json(value) when the call returned; when it threw, the handler's
\* promise rejects, which Express 5 passes to its error handler (500) and
\* Express 4 ignores.
Respond(ret) ==
  IF ret.kind # "throw" THEN "200"
  ELSE IF ExpressMajor >= 5 THEN "500" ELSE NoResponse

(* ---------------------------------------------------------------------- *)
(* Steps                                                                  *)
(* ---------------------------------------------------------------------- *)

\* Two clients whose PUT /todos/:id requests may overlap, and the body each
\* sends: the bodies differ in both fields.
Clients == {"c1", "c2"}
BodyOf ==
  [c1 |-> [task |-> "A", completed |-> SqlTrue],
   c2 |-> [task |-> "B", completed |-> SqlFalse]]

\* A client with no request of its own in the updateTodo handler.
Idle == [pc |-> "idle", req |-> NoRequest, raced |-> FALSE]

\* The process before any of its modules has run.
Boot(program) ==
  [program |-> program, pc |-> "load", pools |-> 0, instances |-> 0,
   gets |-> 0, clients |-> 0, init |-> "none",
   inflight |-> [c \in Clients |-> Idle]]

\* A step that is no repository operation on todos: process start, exit.
Event(op, queries, ret) ==
  [op |-> op, id |-> NoNum, task |-> NoArg, completed |-> NoArg,
   before |-> <<>>, queries |-> queries, ret |-> ret,
   req |-> NoRequest, res |-> NoArg]

\* The todo server is listening: its routes take requests.
Serving == proc.program = ClassServer /\ proc.pc = "listening"

\* One repository call completes: the store takes the statement's effect
\* and the call, its arguments and its outcome are recorded, with the
\* request that brought it and the response to it.
Step(req, res, op, id, task, completed, o, ret) ==
  /\ Serving
  /\ todos' = o.todos
  /\ todos_id_seq' = o.seq
  /\ assigned' = assigned \cup Ids(o.todos)
  /\ last' = [op |-> op, id |-> id, task |-> task, completed |-> completed,
              before |-> o.matched, queries |-> o.queries, ret |-> ret,
              req |-> req, res |-> res]
  /\ UNCHANGED <<schema, poolUp, proc>>

\* A call made directly on the TodoDatabase instance.
Call(op, id, task, completed, o, ret) ==
  Step(NoRequest, NoArg, op, id, task, completed, o, ret)

\* A controller handler: await this.db.op(...); res.json(value).
Serve(req, op, id, task, completed, o, ret) ==
  Step(req, Respond(ret), op, id, task, completed, o, ret)

\* A new process of one of the programs, on a store that holds no table.
Init ==
  /\ todos = <<>>
  /\ todos_id_seq = 1
  /\ assigned = {}
  /\ schema = NoTable
  /\ poolUp = TRUE
  /\ proc \in {Boot(program) : program \in Programs}
  /\ last = Event("exec", 0, ReturnVoid)

\* The module-level statements run: each program constructs one Pool there.
LoadModules ==
  /\ proc.pc = "load"
  /\ proc' = [proc EXCEPT !.pc = "main", !.pools = 1]
  /\ UNCHANGED <<todos, todos_id_seq, assigned, last, schema, poolUp>>

\* TodoDatabase.getInstance(): the instance is constructed, with its pool,
\* by the first call only.
getInstance(p) ==
  IF p.instances = 0
    THEN [p EXCEPT !.instances = 1, !.pools = @ + 1, !.gets = @ + 1]
    ELSE [p EXCEPT !.gets = @ + 1]

\* The two module-level calls: controller.ts "const db", index.ts "const db".
GetInstanceCalls == 2

GetInstance ==
  /\ proc.program = ClassServer
  /\ proc.pc = "main"
  /\ proc.gets < GetInstanceCalls
  /\ proc' = getInstance(proc)
  /\ UNCHANGED <<todos, todos_id_seq, assigned, last, schema, poolUp>>

\* startServer's catch: throwError(error, "Error starting the server"); the
\* promise of startServer() rejects, nobody handles it, nothing listens.
StartFailed(queries, cause) ==
  /\ proc' = [proc EXCEPT !.pc = "failed", !.init = "failed"]
  /\ last' = Event("initialiseDb", queries, throwError(cause, "Error initialising the database"))
  /\ UNCHANGED <<todos, todos_id_seq, assigned, schema, poolUp>>

\* initialiseDb, first await: pool.connect(). The class releases the client
\* at once; db.ts keeps it and never releases it.
InitConnect ==
  /\ proc.program \in {ClassServer, PoolServer}
  /\ proc.pc = "main"
  /\ proc.program = ClassServer => proc.gets = GetInstanceCalls
  /\ IF poolUp
       THEN /\ proc' = [proc EXCEPT !.pc = "connected",
                                     !.clients = IF proc.program = PoolServer
                                                   THEN @ + 1 ELSE @]
            /\ UNCHANGED <<todos, todos_id_seq, assigned, last, schema, poolUp>>
       ELSE StartFailed(0, ConnectionRefused)

\* initialiseDb, second await: CREATE TABLE IF NOT EXISTS; then app.listen.
InitCreateTable ==
  /\ proc.program \in {ClassServer, PoolServer}
  /\ proc.pc = "connected"
  /\ IF poolUp
       THEN LET c == CreateTableIfNotExists(schema, todos, todos_id_seq)
            IN IF c.err = ""
                 THEN /\ schema' = c.schema
                      /\ todos' = c.todos
                      /\ todos_id_seq' = c.seq
                      /\ proc' = [proc EXCEPT !.pc = "listening", !.init = "ok"]
                      /\ last' = Event("initialiseDb", 1, ReturnVoid)
                      /\ UNCHANGED <<assigned, poolUp>>
                 ELSE StartFailed(1, c.err)
       ELSE StartFailed(1, ConnectionRefused)

\* The items server: initializeDatabase() logs whatever goes wrong and
\* returns, and the .then callback calls app.listen.
InitializeDatabase ==
  /\ proc.program = ItemsServer
  /\ proc.pc = "main"
  /\ proc' = [proc EXCEPT !.pc = "listening",
                          !.init = IF poolUp THEN "ok" ELSE "failed"]
  /\ last' = Event("initializeDatabase", IF poolUp THEN 3 ELSE 0, ReturnVoid)
  /\ UNCHANGED <<todos, todos_id_seq, assigned, schema, poolUp>>

\* The process ends (its pools and their connections with it) and the
\* program is started again on the same store.
Restart ==
  /\ proc.pc \in {"listening", "failed"}
  /\ proc' = Boot(proc.program)
  /\ last' = Event("exec", 0, ReturnVoid)
  /\ UNCHANGED <<todos, todos_id_seq, assigned, schema, poolUp>>

\* The store stops accepting connections, and accepts them again.
PoolFails ==
  /\ poolUp
  /\ poolUp' = FALSE
  /\ UNCHANGED <<todos, todos_id_seq, assigned, last, schema, proc>>

PoolRecovers ==
  /\ ~poolUp
  /\ poolUp' = TRUE
  /\ UNCHANGED <<todos, todos_id_seq, assigned, last, schema, proc>>

\* GET /todos
HandleGetTodos ==
  \E req \in Routed["getTodos"] :
    /\ LET o == getTodos(todos, todos_id_seq)
       IN \E rows \in Perms(o.ret.rows) :
            Serve(req, "getTodos", NoNum, NoArg, NoArg, o, [o.ret EXCEPT !.rows = rows])

\* GET /todos/:id
HandleGetTodoById ==
  \E req \in Routed["getTodoById"] :
    /\ LET id == Number(ParamId("getTodoById", req))
           o == getTodoById(todos, todos_id_seq, id)
       IN Serve(req, "getTodoById", id, NoArg, NoArg, o, o.ret)

\* POST /todos
HandleCreateTodo ==
  \E req \in Routed["createTodo"], task \in BodyTasks :
    /\ todos_id_seq <= MaxId
    /\ LET o == createTodo(todos, todos_id_seq, task)
       IN Serve(req, "createTodo", NoNum, task, NoArg, o, o.ret)

\* PUT /todos/:id
HandleUpdateTodo ==
  \E req \in Routed["updateTodo"], task \in BodyTasks, completed \in Bool3 :
    /\ LET id == Number(ParamId("updateTodo", req))
           o == updateTodo(todos, todos_id_seq, id, task, completed)
       IN Serve(req, "updateTodo", id, task, completed, o, o.ret)

\* PUT /todos/toggle/:id
HandleToggleTodoStatus ==
  \E req \in Routed["toggleTodoStatus"] :
    /\ LET id == Number(ParamId("toggleTodoStatus", req))
           o == toggleTodoStatus(todos, todos_id_seq, id)
       IN Serve(req, "toggleTodoStatus", id, NoArg, NoArg, o, o.ret)

\* DELETE /todos/:id
HandleDeleteTodo ==
  \E req \in Routed["deleteTodo"] :
    /\ LET id == Number(ParamId("deleteTodo", req))
           o == deleteTodo(todos, todos_id_seq, id)
       IN Serve(req, "deleteTodo", id, NoArg, NoArg, o, o.ret)

\* The updateTodo handler taken at its await. Up to the await: the request
\* of client c is dispatched, id and body are read, the statement is sent.
ReceiveUpdateTodo ==
  \E c \in Clients, req \in Routed["updateTodo"] :
    /\ Serving
    /\ proc.inflight[c].pc # "awaiting"
    /\ proc' = [proc EXCEPT !.inflight[c] =
                              [pc |-> "awaiting", req |-> req, raced |-> FALSE]]
    /\ UNCHANGED <<todos, todos_id_seq, assigned, last, schema, poolUp>>

\* The store commits the statement of client c, the await returns and the
\* handler responds. A request of another client that waits on the same id
\* has now been overtaken.
CommitUpdateTodo ==
  \E c \in Clients :
    /\ Serving
    /\ proc.inflight[c].pc = "awaiting"
    /\ LET req == proc.inflight[c].req
           id == Number(ParamId("updateTodo", req))
           o == updateTodo(todos, todos_id_seq, id, BodyOf[c].task, BodyOf[c].completed)
       IN /\ todos' = o.todos
          /\ todos_id_seq' = o.seq
          /\ assigned' = assigned \cup Ids(o.todos)
          /\ last' = [op |-> "updateTodo", id |-> id, task |-> BodyOf[c].task,
                      completed |-> BodyOf[c].completed, before |-> o.matched,
                      queries |-> o.queries, ret |-> o.ret,
                      req |-> req, res |-> Respond(o.ret)]
          /\ proc' = [proc EXCEPT !.inflight =
                [d \in Clients |->
                   IF d = c THEN [@[d] EXCEPT !.pc = "done"]
                   ELSE IF @[d].pc = "awaiting" /\ @[d].req = req
                     THEN [@[d] EXCEPT !.raced = TRUE]
                     ELSE @[d]]]
    /\ UNCHANGED <<schema, poolUp>>

\* The toggleTodoStatus handler taken at its await. Up to the await: the
\* request of client c is dispatched, the id is read, the statement is sent.
ReceiveToggleTodoStatus ==
  \E c \in Clients, req \in Routed["toggleTodoStatus"] :
    /\ Serving
    /\ proc.inflight[c].pc = "idle"
    /\ proc' = [proc EXCEPT !.inflight[c] =
                              [pc |-> "awaiting", req |-> req, raced |-> FALSE]]
    /\ UNCHANGED <<todos, todos_id_seq, assigned, last, schema, poolUp>>

\* The store commits the UPDATE of client c on the row as it is now, the
\* await returns and the handler responds.
CommitToggleTodoStatus ==
  \E c \in Clients :
    /\ Serving
    /\ proc.inflight[c].pc = "awaiting"
    /\ proc.inflight[c].req \in Routed["toggleTodoStatus"]
    /\ LET req == proc.inflight[c].req
           id == Number(ParamId("toggleTodoStatus", req))
           o == toggleTodoStatus(todos, todos_id_seq, id)
       IN /\ todos' = o.todos
          /\ todos_id_seq' = o.seq
          /\ assigned' = assigned \cup Ids(o.todos)
          /\ last' = [op |-> "toggleTodoStatus", id |-> id, task |-> NoArg,
                      completed |-> NoArg, before |-> o.matched,
                      queries |-> o.queries, ret |-> o.ret,
                      req |-> req, res |-> Respond(o.ret)]
          /\ proc' = [proc EXCEPT !.inflight[c] = Idle]
    /\ UNCHANGED <<schema, poolUp>>

\* A request no binding matches: Express answers 404, no handler runs.
HandleUnrouted ==
  /\ Serving
  /\ Routed["notFound"] # {}
  /\ last' = [Event("notFound", 0, ReturnVoid) EXCEPT !.res = "404"]
  /\ UNCHANGED <<todos, todos_id_seq, assigned, schema, poolUp, proc>>

\* Repository operations no route reaches, called with typed arguments.
\* Without ORDER BY, rows[0] is any of the rows that match.
CallGetTodoByTask ==
  \E task \in Tasks :
    LET o == getTodoByTask(todos, todos_id_seq, task)
    IN \E rows \in Perms(o.matched) :
         Call("getTodoByTask", NoNum, task, NoArg, o,
              IF o.ret.kind = "throw" THEN o.ret ELSE ReturnRow0(rows))

CallGetTodoByStatus ==
  \E status \in {SqlTrue, SqlFalse} :
    LET o == getTodoByStatus(todos, todos_id_seq, status)
    IN \E rows \in Perms(o.ret.rows) :
         Call("getTodoByStatus", NoNum, NoArg, status, o, [o.ret EXCEPT !.rows = rows])

CallUpdateTodoStatus ==
  \E n \in 0..MaxId, completed \in {SqlTrue, SqlFalse} :
    LET o == updateTodoStatus(todos, todos_id_seq, JsInt(n), completed)
    IN Call("updateTodoStatus", JsInt(n), NoArg, completed, o, o.ret)

CallUpdateTodoTask ==
  \E n \in 0..MaxId, task \in Tasks :
    LET o == updateTodoTask(todos, todos_id_seq, JsInt(n), task)
    IN Call("updateTodoTask", JsInt(n), task, NoArg, o, o.ret)

CallDeleteAllTodos ==
  LET o == deleteAllTodos(todos, todos_id_seq)
  IN Call("deleteAllTodos", NoNum, NoArg, NoArg, o, o.ret)

CallDeleteCompletedTodos ==
  LET o == deleteCompletedTodos(todos, todos_id_seq)
  IN Call("deleteCompletedTodos", NoNum, NoArg, NoArg, o, o.ret)

CallDeleteIncompleteTodos ==
  LET o == deleteIncompleteTodos(todos, todos_id_seq)
  IN Call("deleteIncompleteTodos", NoNum, NoArg, NoArg, o, o.ret)

CallDeleteTodoByTask ==
  \E task \in Tasks :
    LET o == deleteTodoByTask(todos, todos_id_seq, task)
    IN Call("deleteTodoByTask", NoNum, task, NoArg, o, o.ret)

Next ==
  \/ LoadModules
  \/ GetInstance
  \/ InitConnect
  \/ InitCreateTable
  \/ InitializeDatabase
  \/ Restart
  \/ HandleGetTodos
  \/ HandleGetTodoById
  \/ HandleCreateTodo
  \/ HandleUpdateTodo
  \/ HandleToggleTodoStatus
  \/ HandleDeleteTodo
  \/ HandleUnrouted
  \/ CallGetTodoByTask
  \/ CallGetTodoByStatus
  \/ CallUpdateTodoStatus
  \/ CallUpdateTodoTask
  \/ CallDeleteAllTodos
  \/ CallDeleteCompletedTodos
  \/ CallDeleteIncompleteTodos
  \/ CallDeleteTodoByTask

\* The programs on a store that stays up.
Spec == Init /\ [][Next]_vars

\* The todo server with requests that overlap: creations, and two clients
\* inside the updateTodo handler at the same time.
NextRace ==
  \/ LoadModules
  \/ GetInstance
  \/ InitConnect
  \/ InitCreateTable
  \/ HandleCreateTodo
  \/ ReceiveUpdateTodo
  \/ CommitUpdateTodo

SpecRace == Init /\ [][NextRace]_vars

\* The todo server with toggle requests that overlap, on rows that POST
\* /todos creates and PUT /todos/:id sets.
NextToggle ==
  \/ LoadModules
  \/ GetInstance
  \/ InitConnect
  \/ InitCreateTable
  \/ HandleCreateTodo
  \/ HandleUpdateTodo
  \/ ReceiveToggleTodoStatus
  \/ CommitToggleTodoStatus

SpecToggle == Init /\ [][NextToggle]_vars

\* The programs on a store that may go down and come back at any moment.
NextFaulty == Next \/ PoolFails \/ PoolRecovers

SpecFaulty == Init /\ [][NextFaulty]_vars

TypeOK ==
  /\ todos_id_seq \in 1..(MaxId + 1)
  /\ \A i \in 1..Len(todos) :
       /\ todos[i].id \in 1..MaxId
       /\ todos[i].task \in Tasks
       /\ todos[i].completed \in Bool3
  /\ assigned \subseteq 1..MaxId
  /\ schema \in {NoTable, TodosTable}
  /\ poolUp \in BOOLEAN
  /\ proc.program \in Programs
  /\ proc.pc \in {"load", "main", "connected", "listening", "failed"}
  /\ proc.gets \in 0..GetInstanceCalls
  /\ proc.init \in {"none", "ok", "failed"}
  /\ last.ret.kind \in {"todo", "undefined", "todos", "void", "throw"}
  /\ \A c \in Clients : proc.inflight[c].pc \in {"idle", "awaiting", "done"}

(* ---------------------------------------------------------------------- *)
(* Properties                                                             *)
(* ---------------------------------------------------------------------- *)

\* The Todo a call returned (result.rows[0]).
Returned(l) == l.ret.rows[1]

\* The ids whose rows are gone: carried by a row once, by none now.
Gone == assigned \ Ids(todos)

\* C1: for every valid task and every store state, createTodo(task) adds
\* exactly one row and returns it, with the given task, completed = false
\* and an id that no row of the store has ever carried.
C1_CreateAddsFreshRow ==
  [][(last'.op = "createTodo" /\ last'.task \in Tasks) =>
       /\ last'.ret.kind = "todo"
       /\ Returned(last').task = last'.task
       /\ Returned(last').completed = SqlFalse
       /\ Returned(last').id \notin assigned
       /\ todos' = Append(todos, Returned(last'))]_vars

\* C1 witness: a create succeeded in a store that had already lost a row.
C1_Witness ==
  /\ last.op = "createTodo"
  /\ last.ret.kind = "todo"
  /\ Returned(last) \in Range(todos)
  /\ Gone # {}

\* C2: an id that a row once carried is never given to a row created later,
\* no two rows share an id, and no operation changes the id of a row that
\* stays in the table.
C2_IdsNeverReusedNorChanged ==
  [][/\ \A i \in 1..Len(todos') :
          todos'[i].id \in Ids(todos) \/ todos'[i].id \notin assigned
     /\ \A i, j \in 1..Len(todos') : i # j => todos'[i].id # todos'[j].id
     /\ IF Len(todos') >= Len(todos)
          THEN \A i \in 1..Len(todos) : todos'[i].id = todos[i].id
          ELSE Ids(todos') \subseteq Ids(todos)]_vars

\* C2 witness: row 1 was deleted and the row created afterwards carries a
\* later id, after an update of that row.
C2_Witness ==
  /\ last.op = "updateTodo"
  /\ last.ret.kind = "todo"
  /\ Len(todos) = 1
  /\ todos[1].id = 2
  /\ 1 \in Gone

\* C3: createTodo(task) returning a Todo with id n, directly followed by
\* getTodoById(n), yields a Todo with the same task and completed.
C3_CreateThenGetById ==
  [][(/\ last.op = "createTodo"
      /\ last.ret.kind = "todo"
      /\ last'.op = "getTodoById"
      /\ last'.id = JsInt(Returned(last).id)) =>
       /\ last'.ret.kind = "todo"
       /\ Returned(last').id = Returned(last).id
       /\ Returned(last').task = Returned(last).task
       /\ Returned(last').completed = Returned(last).completed]_vars

\* C3 witness: getTodoById returned the row that holds the newest id, still
\* as createTodo made it, in a table whose positions and ids differ.
C3_Witness ==
  /\ last.op = "getTodoById"
  /\ last.ret.kind = "todo"
  /\ Returned(last).id = todos_id_seq - 1
  /\ Returned(last).completed = SqlFalse
  /\ Len(todos) < Returned(last).id

\* C4 as stated: for every id that is not the id of a row, getTodoById(id)
\* returns undefined and never throws.
C4_Original ==
  (/\ last.op = "getTodoById"
   /\ ~(last.id.kind = "int" /\ last.id.val \in Ids(todos))) =>
    last.ret.kind = "undefined"

\* C4 amended: for every integer id that is not the id of a row,
\* getTodoById(id) returns undefined and does not throw.
C4_AbsentIntegerIdNotFound ==
  (/\ last.op = "getTodoById"
   /\ last.id.kind = "int"
   /\ last.id.val \notin Ids(todos)) =>
    last.ret.kind = "undefined"

\* C4 witness: getTodoById was asked for the id of a deleted row while
\* another row is in the table.
C4_Witness ==
  /\ last.op = "getTodoById"
  /\ last.id.kind = "int"
  /\ last.id.val \in Gone
  /\ todos # <<>>
  /\ last.ret.kind = "undefined"

\* The call was made on the id of a row of table t.
OnRowOf(l, t) == l.id.kind = "int" /\ l.id.val \in Ids(t)

\* The row of t with this id, and the rows of t without it.
RowWithId(t, id) == CHOOSE r \in Range(t) : r.id = id
RowsWithoutId(t, id) == {r \in Range(t) : r.id # id}

\* C5 as stated: on every existing row, toggleTodoStatus(id) returns the row
\* with completed negated, and a second toggleTodoStatus(id) directly after
\* the first returns completed to its original value.
C5_ToggleTwice ==
  [][(last'.op = "toggleTodoStatus" /\ OnRowOf(last', todos)) =>
       /\ last'.ret.kind = "todo"
       /\ Returned(last').completed \in {SqlTrue, SqlFalse}
       /\ Returned(last').completed # RowWithId(todos, last'.id.val).completed
       /\ (/\ last.op = "toggleTodoStatus"
           /\ last.id = last'.id
           /\ last.before # <<>>) =>
            Returned(last').completed = last.before[1].completed]_vars

\* C6 as stated, for the first operation after the delete: once
\* deleteTodo(id) has completed, no row carries that id.
C6_Original ==
  [][(/\ last.op = "deleteTodo"
      /\ last.ret.kind # "throw"
      /\ last.id.kind = "int") =>
       last.id.val \notin Ids(todos')]_vars

\* C6 amended: once deleteTodo(id) has deleted a row, the id is gone; the id
\* of a row that is gone is never carried by a row again, and getTodoById
\* on it returns undefined, whatever operations follow.
C6_DeletedIdStaysGone ==
  [][/\ (last'.op = "deleteTodo" /\ last'.ret.kind = "todo") =>
          /\ Returned(last').id = last'.id.val
          /\ last'.id.val \in assigned \ Ids(todos')
     /\ \A n \in Gone : n \notin Ids(todos')
     /\ (/\ last'.op = "getTodoById"
         /\ last'.id.kind = "int"
         /\ last'.id.val \in Gone) =>
          last'.ret.kind = "undefined"]_vars

\* C6 witness: getTodoById found nothing for the id of a deleted row, after
\* a later row was created.
C6_Witness ==
  /\ last.op = "getTodoById"
  /\ last.id = JsInt(1)
  /\ 1 \in Gone
  /\ 2 \in Ids(todos)
  /\ last.ret.kind = "undefined"

\* C7 as stated: deleteTodo(id) on an existing row returns that row as it
\* was and removes exactly that row; on any other id it returns undefined
\* without throwing and leaves the store unchanged.
C7_Original ==
  [][last'.op = "deleteTodo" =>
       IF OnRowOf(last', todos)
         THEN /\ last'.ret.kind = "todo"
              /\ Returned(last') = RowWithId(todos, last'.id.val)
              /\ Range(todos') = RowsWithoutId(todos, last'.id.val)
              /\ Len(todos') = Len(todos) - 1
         ELSE /\ last'.ret.kind = "undefined"
              /\ todos' = todos]_vars

\* C7 amended: deleteTodo(id) on an existing row returns that row as it was
\* and removes exactly that row; on an integer id with no row it returns
\* undefined without throwing and leaves the store unchanged.
C7_DeleteTodo ==
  [][(last'.op = "deleteTodo" /\ last'.id.kind = "int") =>
       IF OnRowOf(last', todos)
         THEN /\ last'.ret.kind = "todo"
              /\ Returned(last') = RowWithId(todos, last'.id.val)
              /\ Range(todos') = RowsWithoutId(todos, last'.id.val)
              /\ Len(todos') = Len(todos) - 1
         ELSE /\ last'.ret.kind = "undefined"
              /\ todos' = todos]_vars

\* C7 witness: deleteTodo returned a completed row and another row stays.
C7_Witness ==
  /\ last.op = "deleteTodo"
  /\ last.ret.kind = "todo"
  /\ Returned(last).completed = SqlTrue
  /\ Returned(last) \notin Range(todos)
  /\ todos # <<>>

\* C8 as stated: updateTodo(id, task, completed) on an existing row sets
\* task and completed, keeps the id and returns {id, task, completed}; on
\* any other id it returns undefined without throwing and leaves the store
\* unchanged.
C8_Original ==
  [][(last'.op = "updateTodo" /\ last'.task \in Tasks) =>
       IF OnRowOf(last', todos)
         THEN /\ last'.ret.kind = "todo"
              /\ Returned(last') = Todo(last'.id.val, last'.task, last'.completed)
              /\ Range(todos') =
                   RowsWithoutId(todos, last'.id.val) \cup {Returned(last')}
              /\ Len(todos') = Len(todos)
         ELSE /\ last'.ret.kind = "undefined"
              /\ todos' = todos]_vars

\* C8 amended: updateTodo(id, task, completed) on an existing row sets task
\* and completed, keeps the id and returns {id, task, completed}; on an
\* integer id with no row it returns undefined without throwing and leaves
\* the store unchanged.
C8_UpdateTodo ==
  [][(/\ last'.op = "updateTodo"
      /\ last'.task \in Tasks
      /\ last'.id.kind = "int") =>
       IF OnRowOf(last', todos)
         THEN /\ last'.ret.kind = "todo"
              /\ Returned(last') = Todo(last'.id.val, last'.task, last'.completed)
              /\ Range(todos') =
                   RowsWithoutId(todos, last'.id.val) \cup {Returned(last')}
              /\ Len(todos') = Len(todos)
         ELSE /\ last'.ret.kind = "undefined"
              /\ todos' = todos]_vars

\* C8 witness: updateTodo changed both the task and completed of a row.
C8_Witness ==
  /\ last.op = "updateTodo"
  /\ last.ret.kind = "todo"
  /\ last.before # <<>>
  /\ last.before[1].task # Returned(last).task
  /\ last.before[1].completed = SqlFalse
  /\ Returned(last).completed = SqlTrue
  /\ Returned(last) \in Range(todos)

\* C9: deleteCompletedTodos removes every row whose completed is true and
\* no other row, and a getTodoByStatus(true) directly after it returns an
\* empty sequence.
C9_DeleteCompleted ==
  [][/\ last'.op = "deleteCompletedTodos" =>
          /\ last'.ret.kind = "void"
          /\ Range(todos') = {r \in Range(todos) : r.completed # SqlTrue}
          /\ Len(todos') = Cardinality(Range(todos'))
     /\ (/\ last.op = "deleteCompletedTodos"
         /\ last'.op = "getTodoByStatus"
         /\ last'.completed = SqlTrue) =>
          /\ last'.ret.kind = "todos"
          /\ last'.ret.rows = <<>>]_vars

\* C9 witness: deleteCompletedTodos removed a row and left another one.
C9_Witness ==
  /\ last.op = "deleteCompletedTodos"
  /\ last.before # <<>>
  /\ todos # <<>>

\* The ids a call reports as created, and the ids it deletes from table t.
CreatedBy(l) ==
  IF l.op = "createTodo" /\ l.ret.kind = "todo" THEN {Returned(l).id} ELSE {}
DeletedBy(l, t) ==
  CASE l.op = "deleteTodo" /\ l.ret.kind = "todo" -> {Returned(l).id}
    [] l.op = "deleteAllTodos" -> Ids(t)
    [] l.op = "deleteCompletedTodos" ->
         {r.id : r \in {x \in Range(t) : x.completed = SqlTrue}}
    [] l.op = "deleteIncompleteTodos" ->
         {r.id : r \in {x \in Range(t) : x.completed = SqlFalse}}
    [] l.op = "deleteTodoByTask" ->
         {r.id : r \in {x \in Range(t) : x.task = l.task}}
    [] OTHER -> {}

\* C10: the table holds exactly the rows created and not yet deleted,
\* getTodos returns each of them once, with pairwise distinct ids, and two
\* successive creates return different ids that are both in the table.
C10_GetTodosReturnsLiveRows ==
  [][/\ Ids(todos') = (Ids(todos) \cup CreatedBy(last')) \ DeletedBy(last', todos)
     /\ last'.op = "getTodos" =>
          /\ last'.ret.kind = "todos"
          /\ Len(last'.ret.rows) = Len(todos')
          /\ Range(last'.ret.rows) = Range(todos')
          /\ \A i, j \in 1..Len(last'.ret.rows) :
               i # j => last'.ret.rows[i].id # last'.ret.rows[j].id
     /\ (/\ last.op = "createTodo" /\ last.ret.kind = "todo"
         /\ last'.op = "createTodo" /\ last'.ret.kind = "todo") =>
          /\ Returned(last).id # Returned(last').id
          /\ {Returned(last).id, Returned(last').id} \subseteq Ids(todos')]_vars

\* C10 witness: getTodos returned two rows, the later one first.
C10_Witness ==
  /\ last.op = "getTodos"
  /\ Len(last.ret.rows) = 2
  /\ last.ret.rows[1].id > last.ret.rows[2].id
  /\ Gone = {}

\* A call of initialiseDb returns or throws: startup leaves "connected".
InitialiseDbEnds == proc.pc = "connected" /\ proc'.pc # "connected"

\* C11: initialiseDb is idempotent: run on a store that already holds the
\* todos table (a second run in a row included), it does not fail and it
\* leaves the table definition, every row and the id sequence as they were.
C11_InitialiseDbIdempotent ==
  [][(InitialiseDbEnds /\ schema # NoTable) =>
       /\ last'.op = "initialiseDb"
       /\ last'.ret.kind = "void"
       /\ schema' = schema
       /\ todos' = todos
       /\ todos_id_seq' = todos_id_seq]_vars

\* initialiseDb has just returned on a table that held rows before it ran.
C11_Witness ==
  /\ last.op = "initialiseDb"
  /\ last.ret.kind = "void"
  /\ schema = TodosTable
  /\ todos # <<>>

\* The message each TodoDatabase operation passes to throwError.
ErrorMessage ==
  [getTodos |-> "Error getting todos",
   getTodoById |-> "Error getting todo",
   getTodoByTask |-> "Error getting todo",
   getTodoByStatus |-> "Error getting todos",
   createTodo |-> "Error creating todo",
   updateTodoStatus |-> "Error updating todo",
   toggleTodoStatus |-> "Error toggling todo status",
   updateTodoTask |-> "Error updating todo task",
   updateTodo |-> "Error updating todo",
   deleteTodo |-> "Error deleting todo",
   deleteAllTodos |-> "Error deleting all todos",
   deleteCompletedTodos |-> "Error deleting completed todos",
   deleteIncompleteTodos |-> "Error deleting incomplete todos",
   deleteTodoByTask |-> "Error deleting todo by task"]

\* This step is a call of a TodoDatabase operation on todos.
RepositoryCall == Serving /\ last' # last /\ last'.op \in DOMAIN ErrorMessage

\* C12: a TodoDatabase operation whose pool query fails throws: when the
\* store is down the call throws the operation's message wrapped around the
\* driver's error and the table is untouched; whenever a call throws, the
\* error carries the operation's message and a cause; and every call sends
\* its statement once.
C12_FailedQueryThrowsWrapped ==
  [][RepositoryCall =>
       /\ last'.queries = 1
       /\ ~poolUp => /\ last'.ret.kind = "throw"
                     /\ last'.ret.cause = ConnectionRefused
                     /\ todos' = todos /\ todos_id_seq' = todos_id_seq
       /\ last'.ret.kind = "throw" => /\ last'.ret.message = ErrorMessage[last'.op]
                                      /\ last'.ret.cause # ""]_vars

\* updateTodo has just thrown on a store that is down and holds rows.
C12_Witness ==
  /\ ~poolUp
  /\ todos # <<>>
  /\ last.op = "updateTodo"
  /\ last.ret = throwError(ConnectionRefused, "Error updating todo")

\* C13: no error is swallowed: a database initialisation that failed was
\* raised to the caller, so the process that ran it is not listening.
C13_ErrorsNeverSwallowed ==
  proc.init = "failed" => proc.pc = "failed" /\ last.ret.kind = "throw"

\* C14: a request whose repository call failed is answered: the failure
\* reaches the server's boundary layer, which responds with a status.
C14_FailedCallGetsResponse ==
  (last.req # NoRequest /\ last.ret.kind = "throw") => last.res # NoResponse

\* The statement of client c commits in this step.
Commits(c) == proc.inflight[c].pc = "awaiting" /\ proc'.inflight[c].pc = "done"

\* C15: updateTodo requests that overlap are not coordinated, and whichever
\* statement the store commits, whatever was in flight or committed before
\* it, leaves the row with exactly that request's task and completed (no mix
\* with the other request's) and every other row as it was.
C15_LastCommitWins ==
  [][\A c \in Clients :
       (Commits(c) /\ last'.ret.kind = "todo") =>
          LET id == last'.id.val
          IN /\ last'.req = proc.inflight[c].req
             /\ RowWithId(todos', id) = Todo(id, BodyOf[c].task, BodyOf[c].completed)
             /\ Returned(last') = RowWithId(todos', id)
             /\ RowsWithoutId(todos', id) = RowsWithoutId(todos, id)]_vars

\* Two requests on the same row overlapped and both have committed: the one
\* that was overtaken committed last, and the row holds its body.
C15_Witness ==
  \E c, d \in Clients :
    /\ c # d
    /\ proc.inflight[c].pc = "done" /\ proc.inflight[c].raced
    /\ proc.inflight[d].pc = "done" /\ proc.inflight[d].req = proc.inflight[c].req
    /\ last.op = "updateTodo" /\ last.task = BodyOf[c].task
    /\ last.ret.kind = "todo"
    /\ RowWithId(todos, last.id.val) =
         Todo(last.id.val, BodyOf[c].task, BodyOf[c].completed)

\* C16: every connection taken from the pool is given back: once
\* initialiseDb has returned or thrown, and after any operations that follow,
\* no connection is checked out.
C16_NoConnectionCheckedOut ==
  proc.pc \in {"listening", "failed"} => proc.clients = 0

\* C17: one Storage Handle per process: getInstance always returns the one
\* TodoDatabase instance, and the process constructs one connection pool.
C17_SingleStorageHandle ==
  /\ proc.instances <= 1
  /\ proc.pools <= 1

\* A create or update call whose body carried no task.
LacksTask(l) == l.op \in {"createTodo", "updateTodo"} /\ l.task = NULL

\* C18 as stated: no stored row has a null task, and every create or update
\* request without a task fails with an error and leaves the rows as they
\* were.
C18_Original ==
  [][/\ \A r \in Range(todos') : r.task # NULL
     /\ LacksTask(last') => last'.ret.kind = "throw" /\ todos' = todos]_vars

\* C18: no stored row has a null task. A create without a task throws and
\* adds no row; an update without a task throws and changes no row when its
\* id is the id of a row or is no integer; when its id is an integer that no
\* row carries, nothing matches, nothing is raised, and the rows stay.
C18_TaskNeverNull ==
  [][/\ \A r \in Range(todos') : r.task # NULL
     /\ LacksTask(last') =>
          /\ todos' = todos
          /\ IF last'.op = "updateTodo" /\ last'.id.kind = "int"
                                        /\ last'.id.val \notin Ids(todos)
               THEN last'.ret.kind = "undefined"
               ELSE last'.ret.kind = "throw"]_vars

\* An update without a task has just been rejected on a row that exists.
C18_Witness ==
  /\ last.op = "updateTodo"
  /\ last.task = NULL
  /\ last.id.kind = "int" /\ last.id.val \in Ids(todos)
  /\ last.ret = throwError(NotNullViolation, "Error updating todo")

\* C19: the completed field of every stored row is a boolean, true or false.
C19_CompletedAlwaysBoolean ==
  \A r \in Range(todos) : r.completed \in {SqlTrue, SqlFalse}

\* The handler the claim names for a request, by verb and shape of path.
HandlerFor(req) ==
  LET n == Len(req.path)
  IN CASE req.verb = "GET" /\ n = 1 -> "getTodos"
       [] req.verb = "GET" /\ n = 2 -> "getTodoById"
       [] req.verb = "POST" /\ n = 1 -> "createTodo"
       [] req.verb = "PUT" /\ n = 2 -> "updateTodo"
       [] req.verb = "PUT" /\ n = 3 -> "toggleTodoStatus"
       [] req.verb = "DELETE" /\ n = 2 -> "deleteTodo"
       [] OTHER -> "notFound"

\* C20: the router is a table of six bindings, one per (verb, path), each
\* with one handler, and every request is served by the handler the table
\* names for it, with the id segment of its path: PUT /todos/toggle/:id by
\* toggleTodoStatus, never by updateTodo.
C20_RouterTable ==
  /\ Len(Routes) = 6
  /\ \A i, j \in 1..Len(Routes) :
       (Routes[i].verb = Routes[j].verb /\ Routes[i].pattern = Routes[j].pattern)
         => i = j
  /\ Range(Routes) =
       {[verb |-> "GET", pattern |-> <<"todos">>, handler |-> "getTodos"],
        [verb |-> "GET", pattern |-> <<"todos", ":id">>, handler |-> "getTodoById"],
        [verb |-> "POST", pattern |-> <<"todos">>, handler |-> "createTodo"],
        [verb |-> "PUT", pattern |-> <<"todos", ":id">>, handler |-> "updateTodo"],
        [verb |-> "PUT", pattern |-> <<"todos", "toggle", ":id">>,
         handler |-> "toggleTodoStatus"],
        [verb |-> "DELETE", pattern |-> <<"todos", ":id">>, handler |-> "deleteTodo"]}
  /\ last.req # NoRequest =>
       /\ last.op = HandlerFor(last.req)
       /\ Len(last.req.path) > 1 =>
            last.id = Number(last.req.path[Len(last.req.path)])

\* PUT /todos/toggle/1 has just been served by toggleTodoStatus on row 1.
C20_Witness ==
  /\ last.req = [verb |-> "PUT", path |-> <<"todos", "toggle", "1">>]
  /\ last.op = "toggleTodoStatus"
  /\ last.id = JsInt(1)
  /\ last.ret.kind = "todo"

\* The id segment of the request of call l is no number.
NonNumericId(l) ==
  /\ l.req # NoRequest
  /\ Len(l.req.path) > 1
  /\ \A i \in 0..MaxId : l.req.path[Len(l.req.path)] # ToString(i)

\* C21: a request whose id segment is not numeric ends in an error thrown
\* by the repository operation, not in a successful response.
C21_NonNumericIdFails ==
  NonNumericId(last) => last.ret.kind = "throw" /\ last.res # "200"

\* C22: deleteTodoByTask(task) removes every row whose task is the given
\* text and no other row, and returns no value; a getTodoByTask(task)
\* directly after it finds nothing.
C22_DeleteTodoByTask ==
  [][/\ last'.op = "deleteTodoByTask" =>
          /\ last'.ret = ReturnVoid
          /\ Range(todos') = {r \in Range(todos) : r.task # last'.task}
          /\ Len(todos') = Cardinality(Range(todos'))
     /\ (/\ last.op = "deleteTodoByTask"
         /\ last'.op = "getTodoByTask"
         /\ last'.task = last.task) =>
          last'.ret.kind = "undefined"]_vars

\* deleteTodoByTask has just removed several rows that carried its task.
C22_Witness ==
  /\ last.op = "deleteTodoByTask"
  /\ last.ret = ReturnVoid
  /\ Len(last.before) >= 2
  /\ \A r \in Range(todos) : r.task # last.task

\* C23: the statuses the CRUD documentation gives: 404 for PUT and DELETE
\* /todos/:id on an id without a row, 204 for a DELETE that removed a row,
\* 201 for a POST /todos that created one.
C23_DocumentedStatuses ==
  last.req # NoRequest =>
    /\ (last.op \in {"updateTodo", "deleteTodo"} /\ last.ret.kind = "undefined")
         => last.res = "404"
    /\ (last.op = "deleteTodo" /\ last.ret.kind = "todo") => last.res = "204"
    /\ (last.op = "createTodo" /\ last.ret.kind = "todo") => last.res = "201"

\* C24: a process that listens has initialised its database successfully
\* before: app.listen follows a successful initialisation and never a failed
\* one.
C24_ListenOnlyAfterInit ==
  proc.pc = "listening" => proc.init = "ok"

\* The toggle of client c commits in this step.
CommitsToggle(c) ==
  /\ proc.inflight[c].pc = "awaiting"
  /\ proc.inflight[c].req \in Routed["toggleTodoStatus"]
  /\ proc'.inflight[c] = Idle

\* C25 as stated, one commit at a time: whichever toggle requests are in
\* flight on it, a toggle that commits on an existing row leaves the row
\* with the negation of the completed value it had just before, so that n
\* toggles leave the original value when n is even and its negation when n
\* is odd.
C25_NoToggleLost ==
  [][\A c \in Clients :
       (CommitsToggle(c) /\ OnRowOf(last', todos)) =>
         /\ last'.id.val \in Ids(todos')
         /\ {RowWithId(todos, last'.id.val).completed,
             RowWithId(todos', last'.id.val).completed} = {SqlTrue, SqlFalse}]_vars

\* The operations that update the row with a given id.
UpdateOps ==
  {"updateTodo", "updateTodoStatus", "updateTodoTask", "toggleTodoStatus"}

\* C26: updateTodo, updateTodoStatus, updateTodoTask and toggleTodoStatus on
\* id change at most the row with that id: every other row keeps its id,
\* task and completed, no id appears or disappears and the number of rows
\* is unchanged.
C26_UpdateChangesOnlyItsRow ==
  [][last'.op \in UpdateOps =>
       /\ Len(todos') = Len(todos)
       /\ Ids(todos') = Ids(todos)
       /\ \A r \in Range(todos) :
            \/ r \in Range(todos')
            \/ last'.id.kind = "int" /\ r.id = last'.id.val]_vars

\* C26 witness: an update changed its row in a table that holds another row,
\* which is as it was.
C26_Witness ==
  /\ last.op \in UpdateOps
  /\ last.ret.kind = "todo"
  /\ Returned(last) # last.before[1]
  /\ Len(todos) = 2
  /\ \E r \in Range(todos) : r.id # last.id.val /\ r.completed = SqlFalse

\* The operations that only read.
ReadOps == {"getTodos", "getTodoById", "getTodoByTask", "getTodoByStatus"}

\* The rows of table t that the read l asks for.
AskedFor(l, t) ==
  CASE l.op = "getTodos" -> Range(t)
    [] l.op = "getTodoById" -> {r \in Range(t) : r.id = l.id.val}
    [] l.op = "getTodoByTask" -> {r \in Range(t) : r.task = l.task}
    [] l.op = "getTodoByStatus" ->
         {r \in Range(t) : r.completed # NULL /\ r.completed = l.completed}

\* C27: getTodos, getTodoById, getTodoByTask and getTodoByStatus leave the
\* rows and the id sequence as they are, and a read that does not throw
\* returns rows as the store holds them now, whatever was written before:
\* all the rows asked for when it returns a sequence, one of them when it
\* returns a Todo, and undefined only when there is none.
C27_ReadsLeaveStoreAndSeeIt ==
  [][last'.op \in ReadOps =>
       /\ todos' = todos
       /\ todos_id_seq' = todos_id_seq
       /\ last'.ret.kind = "todos" =>
            /\ Range(last'.ret.rows) = AskedFor(last', todos)
            /\ Len(last'.ret.rows) = Cardinality(AskedFor(last', todos))
       /\ last'.ret.kind = "todo" => Returned(last') \in AskedFor(last', todos)
       /\ last'.ret.kind = "undefined" => AskedFor(last', todos) = {}]_vars

\* C27 witness: a read by task returned a row as an update left it, from a
\* table of two rows.
C27_Witness ==
  /\ last.op = "getTodoByTask"
  /\ last.ret.kind = "todo"
  /\ Returned(last).completed = SqlTrue
  /\ Returned(last) \in Range(todos)
  /\ Len(todos) = 2

====
